---- MODULE Spec2Model ----
(***************************************************************************)
(* Model of nodes/autostep_node.py (class AutostepNode).                   *)
(*                                                                         *)
(* Three kinds of execution context share the node object:                 *)
(*   - the command context, running command_srv_callback and the handler   *)
(*     it dispatches to;                                                   *)
(*   - the tracking context, running on_tracking_data_callback once per    *)
(*     TrackingData message;                                               *)
(*   - motion threads, one per accepted sinusoid / run_trajectory command, *)
(*     running Autostep.sinusoid / Autostep.run_trajectory.                *)
(* Python threads interleave between statements, so a handler is split     *)
(* wherever another context can observe or change what it reads or writes. *)
(***************************************************************************)
EXTENDS Integers, Sequences, FiniteSets, Bags, TLC

(***************************************************************************)
(* Bounds of the model.                                                    *)
(***************************************************************************)
MaxMotions == 2     \* motion threads started over a behaviour
MaxTicks   == 1     \* controller ticks played by one motion thread
MaxSamples == 3     \* tracking samples received over a behaviour
MaxTime    == 1     \* values rospy.get_time() may return: 0..MaxTime
MaxPos     == 1     \* positions the actuator may report: 0..MaxPos
MaxTrajLen == 3     \* length of the 'position' array of run_trajectory
MaxTrajPos == 2     \* values in the 'position' array: 0..MaxTrajPos

(***************************************************************************)
(* Program constants.                                                      *)
(***************************************************************************)
tracking_mode_gain == 5

Times      == 0..MaxTime
Positions  == 0..MaxPos
SamplePos  == {0, 1}       \* msg.position of a TrackingData message
SampleVel  == {0, 1}       \* msg.velocity of a TrackingData message
ArgNumbers == {1}          \* numeric argument values of a request
ArgModes   == {"max", "jog", "fast"}

(***************************************************************************)
(* The command table built in __init__, and names that are not in it.      *)
(***************************************************************************)
command_srv_table ==
    { "run", "enable", "release", "is_busy", "move_to", "soft_stop",
      "set_position", "get_position", "set_move_mode", "get_params",
      "print_params", "sinusoid", "run_trajectory",
      "enable_tracking_mode", "disable_tracking_mode" }

UnknownCommands == { "stop", "positions" }

param_keys == << "amplitude", "period", "phase", "offset", "num_cycle" >>

Range(s) == { s[i] : i \in DOMAIN s }

(* The keys a handler looks up in args_dict (args_dict[key] raising        *)
(* KeyError when the key is absent).                                       *)
HandlerKeys(c) ==
    CASE c = "run"            -> { "velocity" }
      [] c = "move_to"        -> { "position" }
      [] c = "set_position"   -> { "position" }
      [] c = "set_move_mode"  -> { "mode" }
      [] c = "sinusoid"       -> Range(param_keys)
      [] c = "run_trajectory" -> { "position" }
      [] OTHER                -> { }

(* Keys a request for command c is drawn from: the keys its handler reads, *)
(* plus keys the handler does not know.                                    *)
RequestKeys(c) ==
    CASE c = "run_trajectory" -> { "position", "positions" }
      [] c \in UnknownCommands -> { "velocity" }
      [] OTHER                -> HandlerKeys(c)

(* args_dict after json.loads: the keys present, the value of 'mode' when  *)
(* present, and the numeric value carried by the numeric keys.             *)
ArgDicts(c) ==
    { [keys |-> K, mode |-> IF "mode" \in K THEN m ELSE "", num |-> n] :
        K \in SUBSET RequestKeys(c), m \in ArgModes, n \in ArgNumbers }

NoArgs == [keys |-> {}, mode |-> "", num |-> 1]

ArgMissing(key) ==
    CASE key = "velocity"  -> "velocity argument missing"
      [] key = "position"  -> "position argument missing"
      [] key = "mode"      -> "mode argument missing"
      [] key = "amplitude" -> "amplitude argument missing"
      [] key = "period"    -> "period argument missing"
      [] key = "phase"     -> "phase argument missing"
      [] key = "offset"    -> "offset argument missing"
      [] key = "num_cycle" -> "num_cycle argument missing"
      [] OTHER             -> "argument missing"

(* A response dictionary: message is the list of its ', '-joined parts.    *)
Resp(ok, msg) == [success |-> ok, message |-> msg]
NoResp == [success |-> FALSE, message |-> << "no response yet" >>]

Call(op, arg) == [op |-> op, arg |-> arg]

VARIABLES
    \* command context
    cpc,                    \* position of the command context
    cmd,                    \* req.command of the current / last request
    args,                   \* args_dict of the current / last request
    resp,                   \* resp_dict of the last returned response
    cmdCalls,               \* actuator calls made for the current request
    \* node object
    lock,                   \* holder of self.lock, or "free"
    enabled_flag,
    tracking_mode_enabled,
    running_motion_cmd,
    tracking_mode_is_first,
    tracking_mode_first_update_t,
    tracking_mode_last_update_t,
    tracking_mode_position,
    tracking_mode_velocity,
    tracking_mode_position_start,
    \* actuator (self.autostep)
    vel,                    \* last velocity command received
    velBy,                  \* context that issued it
    move_mode,              \* move mode selected on the actuator
    \* motion threads
    threads,                \* bag of the motion threads in flight
    started,                \* motion threads started so far
    \* tracking context
    tpc,                    \* position of the tracking callback
    msg,                    \* the TrackingData message being processed
    tloc,                   \* locals of the callback
    trkCalls,               \* actuator calls made for the current sample
    trkPub,                 \* last MotionData published by the callback
    nsamples,               \* samples received so far
    sinceEnable,            \* samples acted on since enable_tracking_mode
                            \* last returned (-1: it never has; 2: two or more)
    reenabled,              \* enable_tracking_mode has returned more than once
    \* main thread
    main,                   \* position of the main thread
    created,                \* fields the end of the constructor creates
                            \* that exist by now
    \* actuator
    inCall,                 \* contexts that are inside an actuator method
    \* trajectory interpolation
    trajIn,                 \* the 'position' array of a run_trajectory request
                            \* and the sampling interval dt
    trajFn,                 \* the arrays position_func / velocity_func are built on
    trajOut                 \* last evaluation of the two interpolants

cmdVars   == << cpc, cmd, args, resp, cmdCalls >>
flagVars  == << enabled_flag, tracking_mode_enabled, running_motion_cmd >>
scratchVars == << tracking_mode_is_first, tracking_mode_first_update_t,
                  tracking_mode_last_update_t, tracking_mode_position,
                  tracking_mode_velocity, tracking_mode_position_start >>
actVars   == << vel, velBy, move_mode >>
motionVars == << threads, started >>
trkVars   == << tpc, msg, tloc, trkCalls, trkPub, nsamples, sinceEnable >>
trajVars  == << trajIn, trajFn, trajOut >>
ctorVars  == << main, created >>

vars == << cpc, cmd, args, resp, cmdCalls, lock, enabled_flag,
           tracking_mode_enabled, running_motion_cmd,
           tracking_mode_is_first, tracking_mode_first_update_t,
           tracking_mode_last_update_t, tracking_mode_position,
           tracking_mode_velocity, tracking_mode_position_start,
           vel, velBy, move_mode, threads, started, tpc, msg, tloc, trkCalls,
           trkPub, nsamples, sinceEnable, reenabled, main, created, inCall,
           trajIn, trajFn, trajOut >>

NoMsg == [position |-> 0, velocity |-> 0]
NoLocals == [tracking_mode_enabled |-> FALSE, current_time |-> 0,
             predicted_position |-> 0, new_velocity |-> 0,
             true_position |-> 0]
NoPub    == [seq |-> 0, elapsed_time |-> 0, position |-> 0, setpoint |-> 0]
NoTrajectory == [position |-> << >>, dt |-> 0]
NoInterp == [t |-> << >>, position |-> << >>, velocity |-> << >>]
NoEval   == [t |-> -1, position |-> 0, velocity |-> 0]

(***************************************************************************)
(* The fields __init__ creates after it has registered the subscriber and  *)
(* the service.  A field that is not in created does not exist yet: to     *)
(* read it raises AttributeError, whatever the variable of its name holds. *)
(***************************************************************************)
LateFields == { "lock", "tracking_mode_enabled", "running_motion_cmd" }

Exists(field) == field \in created

LockFree == Exists("lock") /\ lock = "free"

(***************************************************************************)
(* The node object with every field at the value the constructor gives it. *)
(***************************************************************************)
Constructed ==
    /\ cpc = "idle"
    /\ cmd = ""
    /\ args = NoArgs
    /\ resp = NoResp
    /\ cmdCalls = << >>
    /\ lock = "free"
    /\ enabled_flag = TRUE
    /\ tracking_mode_enabled = FALSE
    /\ running_motion_cmd = FALSE
    /\ tracking_mode_is_first = FALSE
    /\ tracking_mode_first_update_t = 0
    /\ tracking_mode_last_update_t = 0
    /\ tracking_mode_position = 0
    /\ tracking_mode_velocity = 0
    /\ tracking_mode_position_start = 0
    /\ vel = 0
    /\ velBy = "init"
    /\ move_mode = "jog"
    /\ threads = EmptyBag
    /\ started = 0
    /\ tpc = "idle"
    /\ msg = NoMsg
    /\ tloc = NoLocals
    /\ trkCalls = << >>
    /\ trkPub = NoPub
    /\ nsamples = 0
    /\ sinceEnable = -1
    /\ reenabled = FALSE
    /\ inCall = { }
    /\ trajFn = NoInterp
    /\ trajOut = NoEval

(***************************************************************************)
(* State after AutostepNode.__init__ (initialize, enable, then the fields  *)
(* created at the end of the constructor): the main thread is in run().    *)
(***************************************************************************)
Init ==
    /\ Constructed
    /\ main = "spin"
    /\ created = LateFields
    /\ trajIn = NoTrajectory

(***************************************************************************)
(* Motion threads.                                                         *)
(***************************************************************************)
Thread(kind, done) == [kind |-> kind, left |-> MaxTicks, on_done |-> done]

(* threading.Thread(target=..., args=thread_args).start(); has_done tells  *)
(* whether thread_args hands motion_done_callback to the target.           *)
StartThread(kind, has_done) == threads (+) SetToBag({ Thread(kind, has_done) })

SinusoidThreadArgsHaveDone   == TRUE     \* [param, data_cb, done_cb]
TrajectoryThreadArgsHaveDone == FALSE    \* [t_done, pos, vel, False, data_cb]

(***************************************************************************)
(* command_srv_callback: a request arrives and its arguments are decoded.  *)
(***************************************************************************)
MotionCommands == { "sinusoid", "run_trajectory" }

CommandReceiveFrom(names) ==
    /\ cpc = "idle"
    /\ main \notin { "ctor_63", "stopped" }
    /\ \E c \in names :
       \E a \in ArgDicts(c) :
          /\ (c \in MotionCommands /\ HandlerKeys(c) \subseteq a.keys)
                => started < MaxMotions
          /\ cmd' = c
          /\ args' = a
    /\ cpc' = "lookup"
    /\ resp' = NoResp
    /\ cmdCalls' = << >>
    /\ UNCHANGED << lock, flagVars, scratchVars, actVars, motionVars, trkVars,
                    ctorVars, reenabled, inCall, trajVars >>

CommandReceive == CommandReceiveFrom(command_srv_table \cup UnknownCommands)

TrackingCommands == { "enable_tracking_mode", "disable_tracking_mode" }

TrackingCommandReceive == CommandReceiveFrom(TrackingCommands)

(* mutant: the KeyError branch reports success *)
CommandUnknownSucceeds ==
    /\ cpc = "lookup"
    /\ cmd \notin command_srv_table
    /\ cpc' = "idle"
    /\ resp' = Resp(TRUE, << "unknown command" >>)
    /\ UNCHANGED << cmd, args, cmdCalls, lock, flagVars, scratchVars,
                    actVars, motionVars, trkVars,
                    ctorVars, reenabled, inCall, trajVars >>

(* command_srv_table[req.command] raises KeyError *)
CommandUnknown ==
    /\ cpc = "lookup"
    /\ cmd \notin command_srv_table
    /\ cpc' = "idle"
    /\ resp' = Resp(FALSE, << "unknown command" >>)
    /\ UNCHANGED << cmd, args, cmdCalls, lock, flagVars, scratchVars,
                    actVars, motionVars, trkVars,
                    ctorVars, reenabled, inCall, trajVars >>

Dispatch(c) == cpc = "lookup" /\ cmd = c /\ cmd \in command_srv_table

Return(r) == cpc' = "idle" /\ resp' = r

(* Handlers of the shape: look one key up, call one actuator method.       *)
OneArgCalls(c) == c \in { "run", "move_to", "set_position" }

OneArgKey(c) == IF c = "run" THEN "velocity" ELSE "position"

on_one_arg_command ==
    /\ cpc = "lookup"
    /\ cmd \in command_srv_table
    /\ OneArgCalls(cmd)
    /\ IF OneArgKey(cmd) \in args.keys
          THEN /\ Return(Resp(TRUE, << >>))
               /\ cmdCalls' = Append(cmdCalls, Call(cmd, args.num))
               /\ IF cmd = "run"
                     THEN vel' = args.num /\ velBy' = "cmd"
                     ELSE UNCHANGED << vel, velBy >>
          ELSE /\ Return(Resp(FALSE, << ArgMissing(OneArgKey(cmd)) >>))
               /\ UNCHANGED << cmdCalls, vel, velBy >>
    /\ UNCHANGED << cmd, args, lock, flagVars, scratchVars, move_mode,
                    motionVars, trkVars, ctorVars, reenabled, inCall, trajVars >>

(* on_enable_command / on_release_command, through enable() / release() *)
on_enable_command ==
    /\ Dispatch("enable")
    /\ cmdCalls' = Append(cmdCalls, Call("enable", 0))
    /\ enabled_flag' = TRUE
    /\ Return(Resp(TRUE, << >>))
    /\ UNCHANGED << cmd, args, lock, tracking_mode_enabled,
                    running_motion_cmd, scratchVars, actVars, motionVars,
                    trkVars, ctorVars, reenabled, inCall, trajVars >>

on_release_command ==
    /\ Dispatch("release")
    /\ cmdCalls' = Append(cmdCalls, Call("release", 0))
    /\ enabled_flag' = FALSE
    /\ Return(Resp(TRUE, << >>))
    /\ UNCHANGED << cmd, args, lock, tracking_mode_enabled,
                    running_motion_cmd, scratchVars, actVars, motionVars,
                    trkVars, ctorVars, reenabled, inCall, trajVars >>

(* soft_stop, is_busy, get_position, get_params, print_params: one         *)
(* actuator call, no argument, always success.                             *)
PlainCommands == { "soft_stop", "is_busy", "get_position", "get_params",
                   "print_params" }

on_plain_command ==
    /\ cpc = "lookup"
    /\ cmd \in PlainCommands
    /\ cmdCalls' = Append(cmdCalls, Call(cmd, 0))
    /\ Return(Resp(TRUE, << >>))
    /\ UNCHANGED << cmd, args, lock, flagVars, scratchVars, actVars,
                    motionVars, trkVars, ctorVars, reenabled, inCall, trajVars >>

(***************************************************************************)
(* An actuator method raises (the serial link fails).  No handler and not  *)
(* command_srv_callback has a try block around an actuator call (the only  *)
(* except clauses are for KeyError, around the argument and table          *)
(* lookups), so the exception leaves the handler before it returns its     *)
(* resp_dict, and leaves command_srv_callback before the CommandResponse   *)
(* is built.  enable() and release() do not reach their assignment.        *)
(***************************************************************************)
MakesOneCall(c, a) ==
    \/ OneArgCalls(c) /\ OneArgKey(c) \in a.keys
    \/ c \in PlainCommands
    \/ c \in { "enable", "release" }

on_command_actuator_error ==
    /\ cpc = "lookup"
    /\ cmd \in command_srv_table
    /\ MakesOneCall(cmd, args)
    /\ cmdCalls' = Append(cmdCalls, Call(cmd, IF OneArgCalls(cmd) THEN args.num ELSE 0))
    /\ cpc' = "raised"
    /\ UNCHANGED << cmd, args, resp, lock, flagVars, scratchVars, actVars,
                    motionVars, trkVars, ctorVars, reenabled, inCall, trajVars >>

(* the exception leaves command_srv_callback: the service proxy of the     *)
(* caller gets an error of the transport, no CommandResponse              *)
command_srv_raised ==
    /\ cpc \in { "raised", "AttributeError" }
    /\ cpc' = "idle"
    /\ UNCHANGED << cmd, args, resp, cmdCalls, lock, flagVars, scratchVars,
                    actVars, motionVars, trkVars, ctorVars, reenabled, inCall,
                    trajVars >>

(* on_set_move_mode_command: ok is initialised to False and never set, so  *)
(* the block that applies or rejects the mode is not entered.              *)
SetMoveModeOk(present) == FALSE

on_set_move_mode_command ==
    /\ Dispatch("set_move_mode")
    /\ LET present == "mode" \in args.keys
           r0 == IF present THEN Resp(TRUE, << >>)
                            ELSE Resp(FALSE, << ArgMissing("mode") >>)
       IN IF SetMoveModeOk(present)
             THEN IF args.mode = "max"
                     THEN /\ cmdCalls' = Append(cmdCalls, Call("set_move_mode_max", 0))
                          /\ move_mode' = "max"
                          /\ Return(r0)
                     ELSE IF args.mode = "jog"
                     THEN /\ cmdCalls' = Append(cmdCalls, Call("set_move_mode_jog", 0))
                          /\ move_mode' = "jog"
                          /\ Return(r0)
                     ELSE /\ Return(Resp(FALSE, << "mode must be 'max' or 'jog'" >>))
                          /\ UNCHANGED << cmdCalls, move_mode, ctorVars, reenabled, inCall, trajVars >>
             ELSE /\ Return(r0)
                  /\ UNCHANGED << cmdCalls, move_mode, ctorVars, reenabled, inCall, trajVars >>
    /\ UNCHANGED << cmd, args, lock, flagVars, scratchVars, vel, velBy,
                    motionVars, trkVars, ctorVars, reenabled, inCall, trajVars >>

(* on_sinusoid_command, up to and including the locked assignment of       *)
(* running_motion_cmd.                                                     *)
(* mutant: the loop over param_keys stops one key short *)
MissingParamsShort(a) ==
    SelectSeq(SubSeq(param_keys, 1, 4), LAMBDA k : k \notin a.keys)

MissingParams(a) ==
    SelectSeq(param_keys, LAMBDA k : k \notin a.keys)

MissingMessage(a) ==
    [i \in 1..Len(MissingParams(a)) |-> ArgMissing(MissingParams(a)[i])]

on_sinusoid_command ==
    /\ Dispatch("sinusoid")
    /\ IF MissingParams(args) = << >>
          THEN /\ LockFree
               /\ running_motion_cmd' = TRUE
               /\ cpc' = "sinusoid_start"
               /\ UNCHANGED resp
          ELSE /\ Return(Resp(FALSE, MissingMessage(args)))
               /\ UNCHANGED running_motion_cmd
    /\ UNCHANGED << cmd, args, cmdCalls, lock, enabled_flag,
                    tracking_mode_enabled, scratchVars, actVars, motionVars,
                    trkVars, ctorVars, reenabled, inCall, trajVars >>

(* motion_thread.start() and the return of the sinusoid handler *)
on_sinusoid_start ==
    /\ cpc = "sinusoid_start"
    /\ threads' = StartThread("sinusoid", SinusoidThreadArgsHaveDone)
    /\ started' = started + 1
    /\ Return(Resp(TRUE, << >>))
    /\ UNCHANGED << cmd, args, cmdCalls, lock, flagVars, scratchVars,
                    actVars, trkVars, ctorVars, reenabled, inCall, trajVars >>

(* on_run_trajectory_command, up to and including the locked assignment    *)
(* of running_motion_cmd.                                                  *)
on_run_trajectory_command ==
    /\ Dispatch("run_trajectory")
    /\ IF "position" \in args.keys
          THEN /\ LockFree
               /\ running_motion_cmd' = TRUE
               /\ cpc' = "trajectory_start"
               /\ UNCHANGED resp
          ELSE /\ Return(Resp(FALSE, << "position (array) argument missing" >>))
               /\ UNCHANGED running_motion_cmd
    /\ UNCHANGED << cmd, args, cmdCalls, lock, enabled_flag,
                    tracking_mode_enabled, scratchVars, actVars, motionVars,
                    trkVars, ctorVars, reenabled, inCall, trajVars >>

on_run_trajectory_start ==
    /\ cpc = "trajectory_start"
    /\ threads' = StartThread("run_trajectory", TrajectoryThreadArgsHaveDone)
    /\ started' = started + 1
    /\ Return(Resp(TRUE, << >>))
    /\ UNCHANGED << cmd, args, cmdCalls, lock, flagVars, scratchVars,
                    actVars, trkVars, ctorVars, reenabled, inCall, trajVars >>

(***************************************************************************)
(* Calls into the actuator.  An actuator method talks to the device and    *)
(* takes time: where another context can run meanwhile, the call is        *)
(* entered in one step and left in the next step of the caller, and the    *)
(* caller is in inCall in between.  The position of a context names the    *)
(* statement it executes next.                                             *)
(***************************************************************************)
Enter(who) == inCall' = inCall \cup { who }
Leave(who) == inCall' = inCall \ { who }

(***************************************************************************)
(* on_enable_tracking_mode_command: the four statements of the locked      *)
(* block.  The tracking callback reads tracking_mode_enabled and           *)
(* tracking_mode_is_first without the lock, so it can run between them.    *)
(***************************************************************************)
(* with self.lock: self.autostep.run(0.0) is entered *)
on_enable_tracking_run ==
    /\ Dispatch("enable_tracking_mode")
    /\ LockFree
    /\ lock' = "cmd"
    /\ cmdCalls' = Append(cmdCalls, Call("run", 0))
    /\ vel' = 0
    /\ velBy' = "cmd"
    /\ Enter("cmd")
    /\ cpc' = "enable_tracking_mode_284"
    /\ UNCHANGED << cmd, args, resp, flagVars, scratchVars, move_mode,
                    motionVars, trkVars, ctorVars, reenabled, trajVars >>

(* run(0.0) returns; set_move_mode_to_max() is entered *)
on_enable_tracking_max ==
    /\ cpc = "enable_tracking_mode_284"
    /\ cmdCalls' = Append(cmdCalls, Call("set_move_mode_to_max", 0))
    /\ move_mode' = "max"
    /\ Enter("cmd")
    /\ cpc' = "enable_tracking_mode_285"
    /\ UNCHANGED << cmd, args, resp, lock, flagVars, scratchVars, vel,
                    velBy, motionVars, trkVars, ctorVars, reenabled, trajVars >>

(* set_move_mode_to_max() returns; self.tracking_mode_enabled = True *)
on_enable_tracking_enabled ==
    /\ cpc = "enable_tracking_mode_285"
    /\ Leave("cmd")
    /\ tracking_mode_enabled' = TRUE
    /\ created' = created \cup { "tracking_mode_enabled" }
    /\ cpc' = "enable_tracking_mode_286"
    /\ UNCHANGED << cmd, args, resp, cmdCalls, lock, enabled_flag,
                    running_motion_cmd, scratchVars, actVars, motionVars,
                    trkVars, main, reenabled, trajVars >>

(* self.tracking_mode_is_first = True; the lock is released; return *)
on_enable_tracking_is_first ==
    /\ cpc = "enable_tracking_mode_286"
    /\ tracking_mode_is_first' = TRUE
    /\ lock' = "free"
    /\ Return(Resp(TRUE, << >>))
    /\ sinceEnable' = 0
    /\ reenabled' = (sinceEnable >= 0)
    /\ UNCHANGED << cmd, args, cmdCalls, flagVars,
                    tracking_mode_first_update_t,
                    tracking_mode_last_update_t, tracking_mode_position,
                    tracking_mode_velocity, tracking_mode_position_start,
                    actVars, motionVars, tpc, msg, tloc, trkCalls, trkPub,
                    nsamples, ctorVars, inCall, trajVars >>

(***************************************************************************)
(* on_disable_tracking_mode_command: the three statements of the locked    *)
(* block.                                                                  *)
(***************************************************************************)
on_disable_tracking_enabled ==
    /\ Dispatch("disable_tracking_mode")
    /\ LockFree
    /\ lock' = "cmd"
    /\ tracking_mode_enabled' = FALSE
    /\ created' = created \cup { "tracking_mode_enabled" }
    /\ cpc' = "disable_tracking_mode_292"
    /\ UNCHANGED << cmd, args, resp, cmdCalls, enabled_flag,
                    running_motion_cmd, scratchVars, actVars, motionVars,
                    trkVars, main, reenabled, inCall, trajVars >>

(* set_move_mode_to_jog() is entered *)
on_disable_tracking_jog ==
    /\ cpc = "disable_tracking_mode_292"
    /\ cmdCalls' = Append(cmdCalls, Call("set_move_mode_to_jog", 0))
    /\ move_mode' = "jog"
    /\ Enter("cmd")
    /\ cpc' = "disable_tracking_mode_293"
    /\ UNCHANGED << cmd, args, resp, lock, flagVars, scratchVars, vel,
                    velBy, motionVars, trkVars, ctorVars, reenabled, trajVars >>

(* set_move_mode_to_jog() returns; run(0.0) is entered *)
on_disable_tracking_run ==
    /\ cpc = "disable_tracking_mode_293"
    /\ cmdCalls' = Append(cmdCalls, Call("run", 0))
    /\ vel' = 0
    /\ velBy' = "cmd"
    /\ Enter("cmd")
    /\ cpc' = "disable_tracking_mode_294"
    /\ UNCHANGED << cmd, args, resp, lock, flagVars, scratchVars, move_mode,
                    motionVars, trkVars, ctorVars, reenabled, trajVars >>

(* run(0.0) returns; the lock is released; return *)
on_disable_tracking_return ==
    /\ cpc = "disable_tracking_mode_294"
    /\ Leave("cmd")
    /\ lock' = "free"
    /\ Return(Resp(TRUE, << >>))
    /\ UNCHANGED << cmd, args, cmdCalls, flagVars, scratchVars, actVars,
                    motionVars, trkVars, ctorVars, reenabled, trajVars >>

(***************************************************************************)
(* A motion thread: the target plays its ticks, calling                    *)
(* motion_data_callback at each, and at the end calls the completion       *)
(* callback it was handed, if any.                                         *)
(***************************************************************************)
MotionTick(t) ==
    /\ BagIn(t, threads)
    /\ t.left > 0
    /\ threads' = (threads (-) SetToBag({t}))
                     (+) SetToBag({ [t EXCEPT !.left = @ - 1] })
    /\ UNCHANGED << cmdVars, lock, flagVars, scratchVars, actVars, trkVars,
                    started, ctorVars, reenabled, inCall, trajVars >>

(* motion_done_callback: with self.lock: self.running_motion_cmd = False *)
MotionDone(t) ==
    /\ BagIn(t, threads)
    /\ t.left = 0
    /\ t.on_done
    /\ LockFree
    /\ running_motion_cmd' = FALSE
    /\ threads' = threads (-) SetToBag({t})
    /\ UNCHANGED << cmdVars, lock, enabled_flag, tracking_mode_enabled,
                    scratchVars, actVars, trkVars,
                    started, ctorVars, reenabled, inCall, trajVars >>

(* the target returns without a completion callback to call *)
MotionExit(t) ==
    /\ BagIn(t, threads)
    /\ t.left = 0
    /\ ~t.on_done
    /\ threads' = threads (-) SetToBag({t})
    /\ UNCHANGED << cmdVars, lock, flagVars, scratchVars, actVars, trkVars,
                    started, ctorVars, reenabled, inCall, trajVars >>

(***************************************************************************)
(* on_tracking_data_callback.                                              *)
(***************************************************************************)
PredictedPosition(position, update_dt, velocity) ==
    position + update_dt * velocity

(* mutant: the parentheses around (predicted_position - position_start)    *)
(* are lost                                                                *)
PositionErrorFlat(sample_position, predicted_position, position_start) ==
    sample_position - predicted_position - position_start

PositionError(sample_position, predicted_position, position_start) ==
    sample_position - (predicted_position - position_start)

NewVelocity(position_error, sample_velocity) ==
    tracking_mode_gain * position_error + sample_velocity

(* a TrackingData message arrives; with self.lock: is entered *)
TrkReceive ==
    /\ tpc = "idle"
    /\ main # "stopped"
    /\ nsamples < MaxSamples
    /\ LockFree
    /\ lock' = "trk"
    /\ \E p \in SamplePos, v \in SampleVel :
          msg' = [position |-> p, velocity |-> v]
    /\ nsamples' = nsamples + 1
    /\ trkCalls' = << >>
    /\ tloc' = NoLocals
    /\ tpc' = "read_enabled"
    /\ UNCHANGED << cmdVars, flagVars, scratchVars, actVars, motionVars,
                    trkPub, sinceEnable, ctorVars, reenabled, inCall, trajVars >>

(* tracking_mode_enabled = self.tracking_mode_enabled, into a local; the   *)
(* lock is released                                                        *)
TrkReadEnabled ==
    /\ tpc = "read_enabled"
    /\ Exists("tracking_mode_enabled")
    /\ tloc' = [tloc EXCEPT !.tracking_mode_enabled = tracking_mode_enabled]
    /\ lock' = "free"
    /\ tpc' = "check_enabled"
    /\ UNCHANGED << cmdVars, flagVars, scratchVars, actVars, motionVars,
                    msg, trkCalls, trkPub, nsamples, sinceEnable, ctorVars,
                    reenabled, inCall, trajVars >>

(* if self.tracking_mode_enabled: (the field, read without the lock; the   *)
(* local copy is not used)                                                 *)
TrkCheckEnabled ==
    /\ tpc = "check_enabled"
    /\ IF tracking_mode_enabled
          THEN tpc' = "check_first" /\ UNCHANGED << msg, tloc >>
          ELSE tpc' = "idle" /\ msg' = NoMsg /\ tloc' = NoLocals
    /\ UNCHANGED << cmdVars, lock, flagVars, scratchVars, actVars, motionVars,
                    trkCalls, trkPub, nsamples, sinceEnable, ctorVars,
                    reenabled, inCall, trajVars >>

(* if self.tracking_mode_is_first: *)
TrkCheckFirst ==
    /\ tpc = "check_first"
    /\ tpc' = IF tracking_mode_is_first THEN "first" ELSE "update"
    /\ UNCHANGED << cmdVars, lock, flagVars, scratchVars, actVars, motionVars,
                    msg, tloc, trkCalls, trkPub, nsamples, sinceEnable,
                    ctorVars, reenabled, inCall, trajVars >>

Bump(n) == IF n < 0 THEN n ELSE IF n < 2 THEN n + 1 ELSE 2

(* the first-sample branch, until get_position() is entered *)
TrkFirstCall ==
    /\ tpc = "first"
    /\ \E now \in Times :
          /\ tracking_mode_is_first' = FALSE
          /\ tracking_mode_first_update_t' = now
          /\ tracking_mode_last_update_t' = now
    /\ trkCalls' = Append(trkCalls, Call("get_position", 0))
    /\ Enter("trk")
    /\ tpc' = "first_return"
    /\ sinceEnable' = Bump(sinceEnable)
    /\ UNCHANGED << cmdVars, lock, flagVars, tracking_mode_position,
                    tracking_mode_velocity, tracking_mode_position_start,
                    actVars, motionVars, msg, tloc, trkPub, nsamples, ctorVars,
                    reenabled, trajVars >>

(* get_position() returns; the rest of the first-sample branch *)
TrkFirst ==
    /\ tpc = "first_return"
    /\ Leave("trk")
    /\ \E p \in Positions :
          /\ tracking_mode_position_start' = p
          /\ tracking_mode_position' = p
          /\ tloc' = [tloc EXCEPT !.predicted_position = p]
          /\ tracking_mode_velocity' = 0
    /\ tpc' = "publish"
    /\ UNCHANGED << cmdVars, lock, flagVars, tracking_mode_is_first,
                    tracking_mode_first_update_t,
                    tracking_mode_last_update_t, actVars, motionVars, msg,
                    trkCalls, trkPub, nsamples, sinceEnable, ctorVars, reenabled,
                    trajVars >>

(* the branch of every later sample, until run_with_feedback(new_velocity) *)
(* is entered                                                              *)
TrkUpdateCall ==
    /\ tpc = "update"
    /\ \E now \in Times :
       LET update_dt == now - tracking_mode_last_update_t
           predicted_position ==
               PredictedPosition(tracking_mode_position, update_dt,
                                 tracking_mode_velocity)
           position_error ==
               PositionError(msg.position, predicted_position,
                             tracking_mode_position_start)
           new_velocity == NewVelocity(position_error, msg.velocity)
       IN /\ trkCalls' = Append(trkCalls, Call("run_with_feedback", new_velocity))
          /\ vel' = new_velocity
          /\ velBy' = "trk"
          /\ tloc' = [tloc EXCEPT !.current_time = now,
                                  !.predicted_position = predicted_position,
                                  !.new_velocity = new_velocity]
    /\ Enter("trk")
    /\ tpc' = "update_return"
    /\ sinceEnable' = Bump(sinceEnable)
    /\ UNCHANGED << cmdVars, lock, flagVars, scratchVars, move_mode,
                    motionVars, msg, trkPub, nsamples, ctorVars, reenabled,
                    trajVars >>

(* run_with_feedback returns the measured position; the three assignments  *)
(* that follow it                                                          *)
TrkUpdate ==
    /\ tpc = "update_return"
    /\ Leave("trk")
    /\ \E measured \in Positions :
          /\ tloc' = [tloc EXCEPT !.true_position = measured]
          /\ tracking_mode_position' = measured
    /\ tracking_mode_velocity' = tloc.new_velocity
    /\ tracking_mode_last_update_t' = tloc.current_time
    /\ tpc' = "publish"
    /\ UNCHANGED << cmdVars, lock, flagVars, tracking_mode_is_first,
                    tracking_mode_first_update_t,
                    tracking_mode_position_start, actVars, motionVars, msg,
                    trkCalls, trkPub, nsamples, sinceEnable, ctorVars, reenabled,
                    trajVars >>

(* self.motion_pub.publish(MotionData(header, elapsed_time, position,      *)
(* predicted_position, 0.0))                                               *)
TrkPublish ==
    /\ tpc = "publish"
    /\ trkPub' = [seq |-> nsamples,
                  elapsed_time |-> tracking_mode_last_update_t
                                     - tracking_mode_first_update_t,
                  position |-> tracking_mode_position,
                  setpoint |-> tloc.predicted_position]
    /\ msg' = NoMsg
    /\ tloc' = NoLocals
    /\ tpc' = "idle"
    /\ UNCHANGED << cmdVars, lock, flagVars, scratchVars, actVars, motionVars,
                    trkCalls, nsamples, sinceEnable, ctorVars, reenabled,
                    inCall, trajVars >>

(***************************************************************************)
(* on_run_trajectory_command, lines 251-261: the arrays and the two        *)
(* interpolants.  The floats are fixed-point numbers, FixedOne units to 1: *)
(* with integer positions, dt a multiple of 1 and evaluation times that    *)
(* are multiples of dt/2, every quotient below is exact.                   *)
(***************************************************************************)
FixedOne == 8

Fixed(n) == n * FixedOne

TrajectoryDts == { Fixed(1), Fixed(2) }

(* the arrays the handler can be given: interp1d raises on fewer than two  *)
(* points, so the interpolants exist for two or more                       *)
TrajectoryPositions ==
    UNION { [1..n -> 0..MaxTrajPos] : n \in 2..MaxTrajLen }

(* position = scipy.array(position) *)
PositionArray(position) == [i \in 1..Len(position) |-> Fixed(position[i])]

(* mutant: the first element is the first difference too *)
VelocityArrayForward(position, dt) ==
    [i \in 1..Len(position) |->
        IF i = 1 THEN ((position[2] - position[1]) * FixedOne) \div dt
                 ELSE ((position[i] - position[i-1]) * FixedOne) \div dt]

(* velocity = zeros(position.shape);                                       *)
(* velocity[1:] = (position[1:] - position[:-1])/dt                        *)
VelocityArray(position, dt) ==
    [i \in 1..Len(position) |->
        IF i = 1 THEN 0
                 ELSE ((position[i] - position[i-1]) * FixedOne) \div dt]

(* t = dt*arange(0, position.shape[0]) *)
TimeArray(n, dt) == [i \in 1..n |-> dt * (i - 1)]

(* interp1d(x, y, kind='linear') called at x_new: hi is searchsorted(x,    *)
(* x_new) clipped to 1..len-1 (here 2..Len(x), sequences counting from 1), *)
(* lo = hi - 1, and the value is slope*(x_new - x_lo) + y_lo.              *)
InterpHi(x, x_new) ==
    CHOOSE hi \in 2..Len(x) :
        /\ hi = 2 \/ x[hi-1] < x_new
        /\ hi = Len(x) \/ x_new <= x[hi]

Interp1d(x, y, x_new) ==
    LET hi == InterpHi(x, x_new)
        lo == hi - 1
    IN  y[lo] + ((y[hi] - y[lo]) * (x_new - x[lo])) \div (x[hi] - x[lo])

(* lines 251-261 *)
TrajectoryBuild ==
    /\ trajIn # NoTrajectory
    /\ trajFn = NoInterp
    /\ LET position == PositionArray(trajIn.position)
           velocity == VelocityArray(position, trajIn.dt)
           t == TimeArray(Len(position), trajIn.dt)
       IN trajFn' = [t |-> t, position |-> position, velocity |-> velocity]
    /\ UNCHANGED << cmdVars, lock, flagVars, scratchVars, actVars, motionVars,
                    trkVars, ctorVars, reenabled, inCall, trajIn, trajOut >>

(* position_func(t), velocity_func(t) for a time of the playback, between  *)
(* 0 and t_done = t[-1]                                                    *)
TrajectoryEval ==
    /\ trajFn # NoInterp
    /\ \E k \in 0..(2 * (Len(trajFn.t) - 1)) :
          LET x_new == k * (trajIn.dt \div 2)
          IN trajOut' = [t |-> x_new,
                         position |-> Interp1d(trajFn.t, trajFn.position, x_new),
                         velocity |-> Interp1d(trajFn.t, trajFn.velocity, x_new)]
    /\ UNCHANGED << cmdVars, lock, flagVars, scratchVars, actVars, motionVars,
                    trkVars, ctorVars, reenabled, inCall, trajIn, trajFn >>

(***************************************************************************)
(* The end of __init__.  The subscriber is registered in line 44 and the   *)
(* service in line 63, both before the lock and the two flags are created  *)
(* in lines 65-67: a sample can be delivered from line 44 on and a request *)
(* from line 63 on, in threads of their own.                               *)
(***************************************************************************)
(* self.command_srv = rospy.Service(...) *)
ctor_command_srv ==
    /\ main = "ctor_63"
    /\ main' = "ctor_65"
    /\ UNCHANGED << cmdVars, lock, flagVars, scratchVars, actVars, motionVars,
                    trkVars, reenabled, created, inCall, trajVars >>

(* self.lock = threading.Lock() *)
ctor_lock ==
    /\ main = "ctor_65"
    /\ main' = "ctor_66"
    /\ lock' = "free"
    /\ created' = created \cup { "lock" }
    /\ UNCHANGED << cmdVars, flagVars, scratchVars, actVars, motionVars,
                    trkVars, reenabled, inCall, trajVars >>

(* self.tracking_mode_enabled = False *)
ctor_tracking_mode_enabled ==
    /\ main = "ctor_66"
    /\ main' = "ctor_67"
    /\ tracking_mode_enabled' = FALSE
    /\ created' = created \cup { "tracking_mode_enabled" }
    /\ UNCHANGED << cmdVars, lock, enabled_flag, running_motion_cmd,
                    scratchVars, actVars, motionVars, trkVars, reenabled,
                    inCall, trajVars >>

(* self.running_motion_cmd = False; __init__ returns and run() is entered *)
ctor_running_motion_cmd ==
    /\ main = "ctor_67"
    /\ main' = "spin"
    /\ running_motion_cmd' = FALSE
    /\ created' = created \cup { "running_motion_cmd" }
    /\ UNCHANGED << cmdVars, lock, enabled_flag, tracking_mode_enabled,
                    scratchVars, actVars, motionVars, trkVars, reenabled,
                    inCall, trajVars >>

(* a TrackingData message arrives; with self.lock: raises, the node has no *)
(* attribute lock                                                          *)
TrkReceiveEarly ==
    /\ tpc = "idle"
    /\ main # "stopped"
    /\ nsamples < MaxSamples
    /\ ~Exists("lock")
    /\ \E p \in SamplePos, v \in SampleVel :
          msg' = [position |-> p, velocity |-> v]
    /\ nsamples' = nsamples + 1
    /\ trkCalls' = << >>
    /\ tloc' = NoLocals
    /\ tpc' = "AttributeError"
    /\ UNCHANGED << cmdVars, lock, flagVars, scratchVars, actVars, motionVars,
                    trkPub, sinceEnable, ctorVars, reenabled, inCall,
                    trajVars >>

(* tracking_mode_enabled = self.tracking_mode_enabled raises, the node has *)
(* no attribute tracking_mode_enabled; the with block releases the lock    *)
TrkReadEnabledEarly ==
    /\ tpc = "read_enabled"
    /\ ~Exists("tracking_mode_enabled")
    /\ lock' = "free"
    /\ tpc' = "AttributeError"
    /\ UNCHANGED << cmdVars, flagVars, scratchVars, actVars, motionVars,
                    msg, tloc, trkCalls, trkPub, nsamples, sinceEnable,
                    ctorVars, reenabled, inCall, trajVars >>

(* the exception ends the callback; the subscriber thread goes on *)
TrkRaised ==
    /\ tpc = "AttributeError"
    /\ tpc' = "idle"
    /\ UNCHANGED << cmdVars, lock, flagVars, scratchVars, actVars, motionVars,
                    msg, tloc, trkCalls, trkPub, nsamples, sinceEnable,
                    ctorVars, reenabled, inCall, trajVars >>

(* on_enable_tracking_mode_command, on_disable_tracking_mode_command:      *)
(* with self.lock: raises, the node has no attribute lock                  *)
on_tracking_mode_early ==
    /\ cpc = "lookup"
    /\ cmd \in TrackingCommands
    /\ ~Exists("lock")
    /\ cpc' = "AttributeError"
    /\ UNCHANGED << cmd, args, resp, cmdCalls, lock, flagVars, scratchVars,
                    actVars, motionVars, trkVars, ctorVars, reenabled,
                    inCall, trajVars >>

(***************************************************************************)
(* run: the main thread sleeps until the node is shut down, then calls     *)
(* self.autostep.run(0.0) and returns.  After the shutdown no request and  *)
(* no sample is delivered; a handler or callback already running goes on.  *)
(***************************************************************************)
Shutdown ==
    /\ main = "spin"
    /\ main' = "stopped"
    /\ vel' = 0
    /\ velBy' = "main"
    /\ UNCHANGED << cmdVars, lock, flagVars, scratchVars, move_mode,
                    motionVars, trkVars, reenabled, created, inCall, trajVars >>

(***************************************************************************)
(* Specifications.  Spec: the command context and the motion threads.      *)
(* SpecTracking: the tracking callback against the two tracking-mode       *)
(* commands.                                                               *)
(***************************************************************************)
CommandStep ==
    \/ CommandUnknown
    \/ on_one_arg_command
    \/ on_enable_command
    \/ on_release_command
    \/ on_plain_command
    \/ on_command_actuator_error
    \/ command_srv_raised
    \/ on_set_move_mode_command
    \/ on_sinusoid_command
    \/ on_sinusoid_start
    \/ on_run_trajectory_command
    \/ on_run_trajectory_start

TrackingModeStep ==
    \/ on_enable_tracking_run
    \/ on_enable_tracking_max
    \/ on_enable_tracking_enabled
    \/ on_enable_tracking_is_first
    \/ on_disable_tracking_enabled
    \/ on_disable_tracking_jog
    \/ on_disable_tracking_run
    \/ on_disable_tracking_return

MotionStep ==
    \/ \E t \in BagToSet(threads) : MotionTick(t)
    \/ \E t \in BagToSet(threads) : MotionDone(t)
    \/ \E t \in BagToSet(threads) : MotionExit(t)

TrackingStep ==
    \/ TrkReceive
    \/ TrkReadEnabled
    \/ TrkCheckEnabled
    \/ TrkCheckFirst
    \/ TrkFirstCall
    \/ TrkFirst
    \/ TrkUpdateCall
    \/ TrkUpdate
    \/ TrkPublish

Next ==
    \/ CommandReceive
    \/ CommandStep
    \/ TrackingModeStep
    \/ MotionStep

Spec == Init /\ [][Next]_vars

NextTracking ==
    \/ TrackingCommandReceive
    \/ TrackingModeStep
    \/ TrackingStep

SpecTracking == Init /\ [][NextTracking]_vars

(* SpecShutdown: SpecTracking with the shutdown of the node.               *)
NextShutdown ==
    \/ Shutdown
    \/ NextTracking

SpecShutdown == Init /\ [][NextShutdown]_vars

(* SpecStartup: the end of the constructor against the tracking callback   *)
(* and the two tracking-mode commands.                                     *)
InitStartup ==
    /\ Constructed
    /\ main = "ctor_63"
    /\ created = { }
    /\ trajIn = NoTrajectory

ConstructorStep ==
    \/ ctor_command_srv
    \/ ctor_lock
    \/ ctor_tracking_mode_enabled
    \/ ctor_running_motion_cmd

StartupErrorStep ==
    \/ TrkReceiveEarly
    \/ TrkReadEnabledEarly
    \/ TrkRaised
    \/ on_tracking_mode_early
    \/ command_srv_raised

NextStartup ==
    \/ ConstructorStep
    \/ TrackingCommandReceive
    \/ TrackingModeStep
    \/ TrackingStep
    \/ StartupErrorStep

SpecStartup == InitStartup /\ [][NextStartup]_vars

(* SpecTrajectory: the interpolants of on_run_trajectory_command, for      *)
(* every 'position' array and sampling interval of the bounds.             *)
InitTrajectory ==
    /\ Constructed
    /\ main = "spin"
    /\ created = LateFields
    /\ trajIn \in [position : TrajectoryPositions, dt : TrajectoryDts]

NextTrajectory ==
    \/ TrajectoryBuild
    \/ TrajectoryEval

SpecTrajectory == InitTrajectory /\ [][NextTrajectory]_vars

(***************************************************************************)
(* Properties of command routing and of the motion threads (Spec).         *)
(***************************************************************************)
CommandReturns == cpc = "lookup" /\ cpc' # "lookup"

StartsMotion == cpc \in { "sinusoid_start", "trajectory_start" }

(* C1: a motion-starting command dispatched while running_motion_cmd is    *)
(* true is refused and starts no thread, so that at most one motion        *)
(* thread is in flight in every reachable state.                           *)
C1_AtMostOneMotionInFlight == BagCardinality(threads) <= 1

(* C2: running_motion_cmd is true from the acceptance of a motion-starting *)
(* command until the completion callback of that run; in every reachable   *)
(* state with a motion thread in flight, running_motion_cmd is true.       *)
C2_InFlightImpliesRunning ==
    BagCardinality(threads) > 0 => running_motion_cmd

(* C3: every accepted motion run clears running_motion_cmd when it ends:   *)
(* once every started motion thread has ended and no motion-starting       *)
(* handler is between its flag assignment and its thread start,            *)
(* running_motion_cmd is false.                                            *)
C3_EndedMotionClearsRunning ==
    (started > 0 /\ threads = EmptyBag /\ ~StartsMotion)
        => ~running_motion_cmd

(* The required keys as the specification text lists them. *)
DocumentedKeys(c) ==
    IF c = "run_trajectory" THEN { "positions" } ELSE HandlerKeys(c)

Rejected ==
    /\ cpc' = "idle"
    /\ resp'.success = FALSE
    /\ cmdCalls' = << >>
    /\ UNCHANGED << actVars, motionVars, running_motion_cmd >>

(* C4 as stated: for run{velocity}, move_to{position},                     *)
(* set_position{position}, set_move_mode{mode}, sinusoid{amplitude,        *)
(* period, phase, offset, num_cycle} and run_trajectory{positions}, a      *)
(* request that omits a required key returns success=false, makes no       *)
(* actuator call, starts no motion thread and leaves running_motion_cmd    *)
(* unchanged.                                                              *)
C4_MissingDocumentedKeyRejected ==
    [][ (CommandReturns /\ cmd \in command_srv_table
            /\ ~(DocumentedKeys(cmd) \subseteq args.keys)) => Rejected ]_vars

(* C4 amended: the same, with run_trajectory requiring the key 'position'  *)
(* that its handler reads.                                                 *)
C4_MissingKeyRejected ==
    [][ (CommandReturns /\ cmd \in command_srv_table
            /\ ~(HandlerKeys(cmd) \subseteq args.keys)) => Rejected ]_vars

C4_Witness ==
    /\ cpc = "idle"
    /\ cmd = "run_trajectory"
    /\ args.keys = { "positions" }
    /\ resp = Resp(FALSE, << "position (array) argument missing" >>)
    /\ started = 0

(* C5: a command name that is not in the command table is answered with    *)
(* success=false and message "unknown command" whatever the arguments,     *)
(* and changes nothing: no actuator call, no flag, no scratch field.       *)
C5_UnknownCommandNoEffect ==
    [][ (CommandReturns /\ cmd \notin command_srv_table)
          => /\ cpc' = "idle"
             /\ resp' = Resp(FALSE, << "unknown command" >>)
             /\ cmdCalls' = << >>
             /\ UNCHANGED << lock, flagVars, scratchVars, actVars,
                             motionVars >> ]_vars

C5_Witness ==
    /\ cpc = "idle"
    /\ cmd \in UnknownCommands
    /\ args.keys # { }
    /\ resp = Resp(FALSE, << "unknown command" >>)
    /\ running_motion_cmd
    /\ tracking_mode_enabled

(* C6: set_move_mode with mode "max" or "jog" applies the mode: exactly    *)
(* one actuator call, which selects that mode, and success=true.           *)
C6_SetMoveModeApplies ==
    [][ (CommandReturns /\ cmd = "set_move_mode" /\ args.mode \in { "max", "jog" })
          => /\ resp'.success = TRUE
             /\ Len(cmdCalls') = 1
             /\ move_mode' = args.mode ]_vars

(* C7: set_move_mode with a mode other than "max" and "jog" returns        *)
(* success=false and applies no mode.                                      *)
C7_SetMoveModeRejectsOther ==
    [][ (CommandReturns /\ cmd = "set_move_mode" /\ "mode" \in args.keys
            /\ args.mode \notin { "max", "jog" })
          => /\ resp'.success = FALSE
             /\ cmdCalls' = << >>
             /\ move_mode' = move_mode ]_vars

(***************************************************************************)
(* Properties of the tracking callback (SpecTracking).                     *)
(***************************************************************************)
FeedbackCalls(calls) ==
    { i \in DOMAIN calls : calls[i].op = "run_with_feedback" }

(* C8: the first tracking sample processed after enable_tracking_mode has  *)
(* returned issues no run_with_feedback call: it reads the actuator        *)
(* position into position_start, sets position = position_start and        *)
(* velocity = 0, sets first_update_t = last_update_t, and publishes        *)
(* position_start as the predicted position.                               *)
C8_FirstSampleNoFeedback ==
    (tpc = "publish" /\ sinceEnable = 1)
        => /\ FeedbackCalls(trkCalls) = { }
           /\ trkCalls = << Call("get_position", 0) >>
           /\ tracking_mode_position = tracking_mode_position_start
           /\ tracking_mode_velocity = 0
           /\ tracking_mode_first_update_t = tracking_mode_last_update_t
           /\ tloc.predicted_position = tracking_mode_position_start

(* the step processes a sample: an actuator call, a scratch-field update   *)
(* or a publication by the tracking callback                               *)
TrackingActs ==
    \/ Len(trkCalls') > Len(trkCalls)
    \/ tracking_mode_position' # tracking_mode_position
    \/ tracking_mode_velocity' # tracking_mode_velocity
    \/ tracking_mode_position_start' # tracking_mode_position_start
    \/ tracking_mode_first_update_t' # tracking_mode_first_update_t
    \/ tracking_mode_last_update_t' # tracking_mode_last_update_t
    \/ (tracking_mode_is_first /\ ~tracking_mode_is_first')
    \/ trkPub' # trkPub

(* tracking mode has been enabled, disable_tracking_mode was the last      *)
(* tracking-mode command to complete, and none is in progress              *)
DisableReturned ==
    /\ sinceEnable >= 0
    /\ ~tracking_mode_enabled
    /\ cpc \in { "idle", "lookup" }

(* C9: once disable_tracking_mode has returned, the last velocity command  *)
(* the actuator received is 0 and no sample is processed any more: no      *)
(* run_with_feedback call, no scratch-field update, no telemetry.          *)
C9_DisableEndsTracking ==
    [][ DisableReturned => (vel = 0 /\ vel' = 0 /\ ~TrackingActs) ]_vars

(* C10: a sample taking the update branch computes                         *)
(* predicted = position + dt * velocity with dt = now - last_update_t,     *)
(* error = sample.position - (predicted - position_start) and              *)
(* command_velocity = gain * error + sample.velocity, calls                *)
(* run_with_feedback(command_velocity) exactly once, and leaves position   *)
(* = the measured position returned, velocity = command_velocity and       *)
(* last_update_t = now; for dt <= 0 as well.                               *)
C10_UpdateStep ==
    [][ /\ (tpc = "update" /\ tpc' # "update")
          => LET now == tloc'.current_time
                 dt == now - tracking_mode_last_update_t
                 predicted == tracking_mode_position + dt * tracking_mode_velocity
                 error == msg.position - (predicted - tracking_mode_position_start)
                 command_velocity == 5 * error + msg.velocity
             IN /\ tloc'.predicted_position = predicted
                /\ trkCalls' = << Call("run_with_feedback", command_velocity) >>
                /\ vel' = command_velocity
                /\ tpc' = "update_return"
        /\ (tpc = "update_return" /\ tpc' # "update_return")
          => /\ trkCalls' = trkCalls
             /\ Len(trkCalls) = 1
             /\ tracking_mode_position' = tloc'.true_position
             /\ tracking_mode_velocity' = trkCalls[1].arg
             /\ tracking_mode_last_update_t' = tloc.current_time
             /\ tloc'.predicted_position = tloc.predicted_position
             /\ tpc' = "publish" ]_vars

(* an update with a nonzero previous velocity and time running backwards *)
C10_Witness ==
    /\ tpc = "publish"
    /\ trkCalls = << Call("run_with_feedback", tracking_mode_velocity) >>
    /\ tracking_mode_velocity # 0
    /\ tloc.predicted_position < 0
    /\ tracking_mode_last_update_t < tracking_mode_first_update_t
    /\ tracking_mode_position = tloc.true_position

(***************************************************************************)
(* Claims about the tracking callback and its interleavings.               *)
(***************************************************************************)
(* C11: a sample received while tracking mode is disabled (the locked read *)
(* of the flag at its reception saw False) is discarded without side       *)
(* effects: no actuator call, no scratch-field update, no telemetry.       *)
C11_DisabledSampleDiscarded ==
    [][ (tpc \notin { "idle", "read_enabled" } /\ ~tloc.tracking_mode_enabled)
          => ~TrackingActs ]_vars

(***************************************************************************)
(* Claims about cancellation, failures and shutdown.                       *)
(***************************************************************************)
(* a motion thread passes a tick boundary and plays one more tick          *)
TickPlayed ==
    \E t \in BagToSet(threads) :
        /\ t.left > 0
        /\ threads' = (threads (-) SetToBag({t}))
                         (+) SetToBag({ [t EXCEPT !.left = @ - 1] })

(* C12: soft_stop issued while a motion profile is in flight requests its  *)
(* cancellation, which the profile honours at its next tick boundary: once *)
(* soft_stop has returned, and until the next command arrives, no motion   *)
(* thread plays a further tick.                                            *)
C12_SoftStopCancelsProfile ==
    [][ (cmd = "soft_stop" /\ cpc = "idle") => ~TickPlayed ]_vars

(* C13: when an actuator call made for a command fails, the request still  *)
(* ends with a command result that has success = false and a descriptive   *)
(* message.                                                                *)
C13_ActuatorFailureReported ==
    [][ (cpc = "raised" /\ cpc' # "raised")
          => /\ resp' # NoResp
             /\ resp'.success = FALSE
             /\ resp'.message # << >> ]_vars

(* C14: the run(0.0) of the shutdown is the last velocity-changing command *)
(* the actuator receives, whatever is in flight: once the main thread has  *)
(* issued it, the commanded velocity stays 0.                              *)
C14_ShutdownStopIsLast ==
    [][ main = "stopped" => vel' = 0 ]_vars

(***************************************************************************)
(* Claims about the trajectory interpolants.                               *)
(***************************************************************************)
Half == FixedOne \div 2

(* positions [0, 1, 2] sampled at dt = 1.0 *)
Ramp == [position |-> << 0, 1, 2 >>, dt |-> Fixed(1)]

Evaluated == trajOut # NoEval

(* the evaluation time lies on sample i (counting from 1) *)
OnSample(i) == trajOut.t = trajIn.dt * (i - 1)

(* the evaluation time lies halfway between samples i and i + 1 *)
Halfway(i) == 2 * trajOut.t = trajIn.dt * (2 * i - 1)

(* the position interpolant is piecewise linear over t_i = i*dt and        *)
(* reproduces the input at every sample time                               *)
PositionPiecewiseLinear ==
    /\ \A i \in 1..Len(trajIn.position) :
          OnSample(i) => trajOut.position = Fixed(trajIn.position[i])
    /\ \A i \in 1..(Len(trajIn.position) - 1) :
          Halfway(i) =>
              2 * trajOut.position
                  = Fixed(trajIn.position[i]) + Fixed(trajIn.position[i+1])

(* C15 as stated: piecewise-linear position, and for positions [0, 1, 2]   *)
(* at dt = 1.0, velocity(0.5) = 1.0, position(0.5) = 0.5, position(1.0) =  *)
(* 1 and position(2.0) = 2.                                                *)
C15_RampVelocityOne ==
    Evaluated =>
        /\ PositionPiecewiseLinear
        /\ (trajIn = Ramp /\ trajOut.t = Half)
              => trajOut.velocity = Fixed(1) /\ trajOut.position = Half
        /\ (trajIn = Ramp /\ trajOut.t = Fixed(1)) => trajOut.position = Fixed(1)
        /\ (trajIn = Ramp /\ trajOut.t = Fixed(2)) => trajOut.position = Fixed(2)

(* C15 amended: the velocity interpolant joins the first differences, with *)
(* 0 at t_0, linearly: for positions [0, 1, 2] at dt = 1.0 the velocity at *)
(* t = 0.5 is 0.5 (halfway from 0 to 1); the rest as stated.               *)
C15_RampVelocityHalf ==
    Evaluated =>
        /\ PositionPiecewiseLinear
        /\ OnSample(1) => trajOut.velocity = 0
        /\ \A i \in 2..Len(trajIn.position) :
              OnSample(i) =>
                  trajOut.velocity * trajIn.dt
                      = Fixed(Fixed(trajIn.position[i] - trajIn.position[i-1]))
        /\ (trajIn = Ramp /\ trajOut.t = Half)
              => trajOut.velocity = Half /\ trajOut.position = Half
        /\ (trajIn = Ramp /\ trajOut.t = Fixed(1)) => trajOut.position = Fixed(1)
        /\ (trajIn = Ramp /\ trajOut.t = Fixed(2)) => trajOut.position = Fixed(2)

(* the ramp [0, 1, 2] at dt = 1.0 has been evaluated at t = 0.5 *)
C15_Witness ==
    /\ trajIn = Ramp
    /\ trajOut.t = Half
    /\ trajOut.velocity = Half
    /\ trajOut.position = Half

(***************************************************************************)
(* Claims about locking.                                                   *)
(***************************************************************************)
(* C16: at most one call into the actuator is in progress in any reachable *)
(* state: the calls of the command handlers and of the tracking callback   *)
(* never overlap.                                                          *)
C16_ActuatorCallsSerialized == Cardinality(inCall) <= 1

(* the step of the tracking callback reads or writes a flag or a scratch   *)
(* field of the node: every step of the callback does, except the          *)
(* reception of the sample                                                 *)
TrackingTouchesState ==
    /\ tpc \in { "read_enabled", "check_enabled", "check_first", "first",
                 "first_return", "update", "update_return", "publish" }
    /\ tpc' # tpc

(* C17: every read and write of the flags and of the tracking scratch      *)
(* fields happens while the executing context holds the state lock: a step *)
(* of the tracking callback that touches them is taken with the lock held  *)
(* by the callback.                                                        *)
C17_StateAccessUnderLock ==
    [][ TrackingTouchesState => lock = "trk" ]_vars

(* the tracking callback acts on what it has read from the flags: it       *)
(* enters one of its two branches                                          *)
TrackingEntersBranch ==
    /\ tpc = "check_first"
    /\ tpc' \in { "first", "update" }

(* C18: enable_tracking_mode makes its actuator calls and sets             *)
(* tracking_mode_enabled and tracking_mode_is_first as one indivisible     *)
(* step for the tracking callback: the callback never enters a branch      *)
(* while the handler is between its first statement and its last.          *)
C18_EnableIndivisible ==
    [][ (cpc \in { "enable_tracking_mode_284", "enable_tracking_mode_285",
                   "enable_tracking_mode_286" })
          => ~TrackingEntersBranch ]_vars

(***************************************************************************)
(* Claims about start-up and about enabling again.                         *)
(***************************************************************************)
(* C19: no tracking callback and no command handler runs before the lock   *)
(* and the flags exist: a sample or a request that arrives while the       *)
(* constructor is still running never reads a field that has not been      *)
(* created.                                                                *)
C19_FieldsExistBeforeCallbacks ==
    /\ tpc # "AttributeError"
    /\ cpc # "AttributeError"

(* C20: enable_tracking_mode issued again, while tracking or after a       *)
(* disable_tracking_mode, starts a new session: the first sample processed *)
(* after it has returned takes the first-sample branch (it reads the       *)
(* actuator position into position_start, sets velocity to 0 and           *)
(* first_update_t to last_update_t and issues no run_with_feedback) and    *)
(* uses no scratch field of the earlier session.                           *)
C20_ReenableStartsOver ==
    (tpc = "publish" /\ sinceEnable = 1 /\ reenabled)
        => /\ trkCalls = << Call("get_position", 0) >>
           /\ tracking_mode_velocity = 0
           /\ tracking_mode_position = tracking_mode_position_start
           /\ tracking_mode_first_update_t = tracking_mode_last_update_t
           /\ tloc.predicted_position = tracking_mode_position_start

====
